---- MODULE Spec2Model ----
(***************************************************************************)
(* Interval arithmetic, choice trail and interval JIT of fidget.           *)
(*                                                                         *)
(* f32 values are modelled on a coarse grid: the finite representable      *)
(* values are the integers, an operation whose exact result is not         *)
(* representable (division, square root) rounds to the nearest integer,    *)
(* ties to even, as IEEE 754 rounds to the nearest representable value.    *)
(* NaN and the two infinities are kept, with IEEE 754 arithmetic and       *)
(* comparisons (every comparison with NaN is false).  The sign of zero is  *)
(* not modelled: -0.0 and 0.0 are one value.                               *)
(***************************************************************************)
EXTENDS Integers, Sequences, FiniteSets, TLC

VARIABLES
    a,          \* SpecOps: left (or only) operand interval
    b,          \* SpecOps: right operand interval
    res,        \* SpecOps: what the last interval operation returned
    tape,       \* IntervalEval.tape
    choices,    \* IntervalEval.choices, the choice trail
    last,       \* the arguments of the last eval_i / eval_i_subdiv call
    ret,        \* what the last call on the evaluator returned
    stale,      \* history: the last evaluation found, on entry, a trail bit
                \* set that the evaluation itself did not emit
    maps,       \* SpecJit: the executable mappings (Mmap)
    evals,      \* SpecJit: the JitIntervalEval handles
    out         \* SpecJit: what the last call on a handle returned

vars == <<a, b, res, tape, choices, last, ret, stale, maps, evals, out>>

\* Deepest subdivision eval_i_subdiv is called with.
MaxDepth == 2

\* Largest magnitude of a finite interval bound drawn as an input.
MaxVal == 2

\* Number of executable mappings and of JitIntervalEval handles alive at once.
MaxMaps == 2
MaxEvals == 2

----------------------------------------------------------------------------
(* f32.  A finite value is the integer itself; the infinities and NaN are  *)
(* integers beyond the finite range.  PInf and NInf keep their place in    *)
(* the order of the integers, and every comparison tests for NaN first.    *)

\* Largest finite value: a result of greater magnitude overflows to an
\* infinity, as beyond f32::MAX.
F32Max == 1000

PInf == F32Max + 1
NInf == -PInf
NaN == PInf + 1
Fin(n) == n
Zero == Fin(0)

IsNaN(x) == x = NaN
IsInf(x) == x = PInf \/ x = NInf

\* A finite result, or the infinity it overflows to
Norm(n) == IF n > F32Max THEN PInf ELSE IF n < -F32Max THEN NInf ELSE n

\* f32 `<`
FLt(x, y) == ~IsNaN(x) /\ ~IsNaN(y) /\ x < y

\* f32 `<=`
FLe(x, y) == ~IsNaN(x) /\ ~IsNaN(y) /\ x <= y

\* f32 `>`
FGt(x, y) == FLt(y, x)

\* f32 `>=`
FGe(x, y) == FLe(y, x)

Sign(n) == IF n < 0 THEN -1 ELSE 1

AbsInt(n) == IF n < 0 THEN -n ELSE n

\* f32 unary minus
FNeg(x) == IF IsNaN(x) THEN NaN ELSE -x

\* f32 abs
FAbs(x) == IF IsNaN(x) THEN NaN ELSE AbsInt(x)

\* f32 `+`
FAdd(x, y) ==
    IF IsNaN(x) \/ IsNaN(y) THEN NaN
    ELSE IF IsInf(x) THEN (IF y = -x THEN NaN ELSE x)
    ELSE IF IsInf(y) THEN y
    ELSE Norm(x + y)

\* f32 `-`
FSub(x, y) == FAdd(x, FNeg(y))

\* f32 `*`
FMul(x, y) ==
    IF IsNaN(x) \/ IsNaN(y) THEN NaN
    ELSE IF IsInf(x) \/ IsInf(y)
         THEN (IF x = 0 \/ y = 0 THEN NaN ELSE Sign(x) * Sign(y) * PInf)
    ELSE Norm(x * y)

\* Quotient of naturals n / d (d > 0), rounded to nearest, ties to even.
RoundDiv(n, d) ==
    LET q == n \div d
        r == n % d
    IN  IF 2 * r > d THEN q + 1
        ELSE IF 2 * r < d THEN q
        ELSE IF q % 2 = 0 THEN q ELSE q + 1

\* f32 `/`
FDiv(x, y) ==
    IF IsNaN(x) \/ IsNaN(y) THEN NaN
    ELSE IF IsInf(y) THEN (IF IsInf(x) THEN NaN ELSE Zero)
    ELSE IF IsInf(x) THEN Sign(x) * Sign(y) * PInf
    ELSE IF y = 0 THEN (IF x = 0 THEN NaN ELSE Sign(x) * PInf)
    ELSE Sign(x) * Sign(y) * RoundDiv(AbsInt(x), AbsInt(y))

\* Square root of a natural, rounded to nearest.
RoundSqrt(n) ==
    LET s == CHOOSE r \in 0..n : r * r <= n /\ (r + 1) * (r + 1) > n
    IN  IF n - s * s > s THEN s + 1 ELSE s

\* f32::sqrt, fsqrt
FSqrt(x) ==
    IF IsNaN(x) THEN NaN
    ELSE IF x = PInf THEN PInf
    ELSE IF x < 0 THEN NaN
    ELSE RoundSqrt(x)

\* f32::min (and fminnm): a NaN argument is ignored
FMinNum(x, y) ==
    IF IsNaN(x) THEN y
    ELSE IF IsNaN(y) THEN x
    ELSE IF FLt(y, x) THEN y ELSE x

\* f32::max (and fmaxnm): a NaN argument is ignored
FMaxNum(x, y) ==
    IF IsNaN(x) THEN y
    ELSE IF IsNaN(y) THEN x
    ELSE IF FGt(y, x) THEN y ELSE x

\* AArch64 fmin: a NaN argument gives NaN
FMinArm(x, y) ==
    IF IsNaN(x) \/ IsNaN(y) THEN NaN
    ELSE IF FLt(y, x) THEN y ELSE x

\* AArch64 fmax: a NaN argument gives NaN
FMaxArm(x, y) ==
    IF IsNaN(x) \/ IsNaN(y) THEN NaN
    ELSE IF FGt(y, x) THEN y ELSE x

----------------------------------------------------------------------------
(* Choice: a 2-bit value per min/max op *)

CHOICE_UNKNOWN == 0
CHOICE_LEFT == 1
CHOICE_RIGHT == 2
CHOICE_BOTH == 3

Choice == {CHOICE_UNKNOWN, CHOICE_LEFT, CHOICE_RIGHT, CHOICE_BOTH}

\* Orr with the choice stored over the trail byte instead of merged into it
Orr_store(x, y) == y

\* orr w14, w14, #imm on the two choice bits
Orr(x, y) ==
    LET bit0 == IF x % 2 = 1 \/ y % 2 = 1 THEN 1 ELSE 0
        bit1 == IF (x \div 2) % 2 = 1 \/ (y \div 2) % 2 = 1 THEN 1 ELSE 0
    IN  2 * bit1 + bit0

----------------------------------------------------------------------------
(* Interval (fidget-core/src/eval/interval.rs) *)

Iv(l, u) == [lower |-> l, upper |-> u]

\* A panic: the failed assertion of Interval::new, or todo!()
Panic == [panic |-> TRUE]

IsPanic(r) == "panic" \in DOMAIN r

NaNInterval == Iv(NaN, NaN)

\* Interval::new
new(l, u) ==
    IF FGe(u, l) \/ (IsNaN(l) /\ IsNaN(u)) THEN Iv(l, u) ELSE Panic

\* impl From<f32> for Interval
from(f) == new(f, f)

\* Interval::abs
abs(self) ==
    IF FLt(self.lower, Zero)
    THEN IF FGt(self.upper, Zero)
         THEN new(Zero, FMaxNum(self.upper, FNeg(self.lower)))
         ELSE new(FNeg(self.upper), FNeg(self.lower))
    ELSE self

\* Interval::sqrt
sqrt(self) ==
    IF FLt(self.lower, Zero)
    THEN IF FGt(self.upper, Zero)
         THEN new(Zero, FSqrt(self.upper))
         ELSE from(NaN)
    ELSE new(FSqrt(self.lower), FSqrt(self.upper))

\* Interval::recip: todo!()
recip(self) == Panic

\* Interval::min_choice
min_choice(self, rhs) ==
    LET choice == IF FLt(self.upper, rhs.lower) THEN CHOICE_LEFT
                  ELSE IF FLt(rhs.upper, self.lower) THEN CHOICE_RIGHT
                  ELSE CHOICE_BOTH
    IN  [val |-> new(FMinNum(self.lower, rhs.lower),
                     FMinNum(self.upper, rhs.upper)),
         choice |-> choice]

\* max_choice deciding Left and Right on the wrong bounds
max_choice_lax(self, rhs) ==
    LET choice == IF FGt(self.upper, rhs.lower) THEN CHOICE_LEFT
                  ELSE IF FGt(rhs.upper, self.lower) THEN CHOICE_RIGHT
                  ELSE CHOICE_BOTH
    IN  [val |-> new(FMaxNum(self.lower, rhs.lower),
                     FMaxNum(self.upper, rhs.upper)),
         choice |-> choice]

\* Interval::max_choice
max_choice(self, rhs) ==
    LET choice == IF FGt(self.lower, rhs.upper) THEN CHOICE_LEFT
                  ELSE IF FGt(rhs.lower, self.upper) THEN CHOICE_RIGHT
                  ELSE CHOICE_BOTH
    IN  [val |-> new(FMaxNum(self.lower, rhs.lower),
                     FMaxNum(self.upper, rhs.upper)),
         choice |-> choice]

\* impl Add for Interval
add(self, rhs) ==
    new(FAdd(self.lower, rhs.lower), FAdd(self.upper, rhs.upper))

\* impl Mul for Interval
mul(self, rhs) ==
    LET o == <<FMul(self.lower, rhs.lower), FMul(self.lower, rhs.upper),
               FMul(self.upper, rhs.lower), FMul(self.upper, rhs.upper)>>
        lower == FMinNum(FMinNum(FMinNum(o[1], o[2]), o[3]), o[4])
        upper == FMaxNum(FMaxNum(FMaxNum(o[1], o[2]), o[3]), o[4])
    IN  new(lower, upper)

\* impl Sub for Interval
sub(self, rhs) ==
    new(FSub(self.lower, rhs.upper), FSub(self.upper, rhs.lower))

\* impl Neg for Interval
neg(self) == new(FNeg(self.upper), FNeg(self.lower))

----------------------------------------------------------------------------
(* IntervalAssembler (fidget/src/jit/interval.rs): what the emitted code   *)
(* computes.  A SIMD register V.2S is an interval record, lane 0 the lower *)
(* and lane 1 the upper bound; a branch of the emitted code is an IF on    *)
(* the tested bit of x15.                                                  *)

\* rev64 Vd.2S, Vn.2S
rev64(r) == Iv(r.upper, r.lower)

\* fminnmv over the lanes of a 4-lane register
fminnmv(q) == FMinNum(FMinNum(FMinNum(q[1], q[2]), q[3]), q[4])

\* fmaxnmv over the lanes of a 4-lane register
fmaxnmv(q) == FMaxNum(FMaxNum(FMaxNum(q[1], q[2]), q[3]), q[4])

\* IntervalAssembler::build_copy
build_copy(lhs) == lhs

\* IntervalAssembler::build_neg: fneg, rev64
build_neg(lhs) == rev64(Iv(FNeg(lhs.lower), FNeg(lhs.upper)))

\* IntervalAssembler::build_abs
build_abs(lhs) ==
    LET bit0 == FLe(lhs.lower, Zero)                \* fcmle lane 0
        bit32 == FLe(lhs.upper, Zero)               \* fcmle lane 1
        fabs == Iv(FAbs(lhs.lower), FAbs(lhs.upper))
    IN  IF bit32 THEN rev64(fabs)                   \* -> upper_lz
        ELSE IF ~bit0 THEN fabs                     \* -> end
        ELSE LET s4 == fmaxnmv(<<fabs.lower, fabs.upper, Zero, Zero>>)
             IN  rev64(Iv(s4, Zero))                \* falls through to the swap

\* IntervalAssembler::build_recip
build_recip(lhs) ==
    LET okay == Iv(FDiv(Fin(1), lhs.lower), FDiv(Fin(1), lhs.upper))
    IN  IF FGt(lhs.lower, Zero) THEN rev64(okay)    \* b.gt -> okay
        ELSE IF FLt(lhs.upper, Zero) THEN rev64(okay)   \* b.mi -> okay
        ELSE NaNInterval

\* IntervalAssembler::build_sqrt
build_sqrt(lhs) ==
    LET bit0 == FLe(lhs.lower, Zero)
        bit32 == FLe(lhs.upper, Zero)
    IN  IF bit32 THEN NaNInterval                   \* -> upper_lz
        ELSE IF bit0 THEN Iv(Zero, FSqrt(lhs.upper))    \* -> lower_lz
        ELSE Iv(FSqrt(lhs.lower), FSqrt(lhs.upper))     \* happy path

\* IntervalAssembler::build_square
build_square(lhs) ==
    LET bit0 == FLe(lhs.lower, Zero)
        bit32 == FLe(lhs.upper, Zero)
        fmul == Iv(FMul(lhs.lower, lhs.lower), FMul(lhs.upper, lhs.upper))
    IN  IF bit32 THEN rev64(fmul)                   \* -> swap
        ELSE IF ~bit0 THEN fmul                     \* -> end
        ELSE Iv(Zero, fmaxnmv(<<fmul.lower, fmul.upper, Zero, Zero>>))

\* IntervalAssembler::build_add
build_add(lhs, rhs) ==
    Iv(FAdd(lhs.lower, rhs.lower), FAdd(lhs.upper, rhs.upper))

\* IntervalAssembler::build_sub
build_sub(lhs, rhs) ==
    LET v4 == rev64(rhs)
    IN  Iv(FSub(lhs.lower, v4.lower), FSub(lhs.upper, v4.upper))

\* IntervalAssembler::build_mul
build_mul(lhs, rhs) ==
    LET v4 == <<lhs.upper, lhs.lower, lhs.lower, lhs.upper>>
        v5 == <<rhs.lower, rhs.upper, rhs.lower, rhs.upper>>
        fmul == [i \in 1..4 |-> FMul(v4[i], v5[i])]
    IN  Iv(fminnmv(fmul), fmaxnmv(fmul))

\* IntervalAssembler::build_div
build_div(lhs, rhs) ==
    LET v4 == <<lhs.upper, lhs.lower, lhs.lower, lhs.upper>>
        v5 == <<rhs.lower, rhs.upper, rhs.lower, rhs.upper>>
        fdiv == [i \in 1..4 |-> FDiv(v4[i], v5[i])]
        happy == Iv(fminnmv(fdiv), fmaxnmv(fdiv))
        \* b.lt after fcmp is taken when N # V: less than, or unordered
        lt == FLt(rhs.upper, Zero) \/ IsNaN(rhs.upper)
    IN  IF FGt(rhs.lower, Zero) THEN happy          \* b.gt -> happy
        ELSE IF lt THEN happy                       \* b.lt -> happy
        ELSE NaNInterval

\* build_max with the Left and Right branches exchanged
build_max_swapped(lhs, rhs, w14) ==
    LET bit0 == FGt(rhs.lower, lhs.upper)
        bit32 == FGt(lhs.lower, rhs.upper)
    IN  IF bit32
        THEN [val |-> rhs, choice |-> Orr(w14, CHOICE_RIGHT), simplify |-> TRUE]
        ELSE IF ~bit0
        THEN [val |-> Iv(FMaxArm(lhs.lower, rhs.lower),
                         FMaxArm(lhs.upper, rhs.upper)),
              choice |-> Orr(w14, CHOICE_BOTH), simplify |-> FALSE]
        ELSE [val |-> lhs, choice |-> Orr(w14, CHOICE_LEFT), simplify |-> TRUE]

\* IntervalAssembler::build_max; w14 is the byte loaded from the trail.
\* val: the out register, choice: the byte stored to the trail,
\* simplify: whether the flag byte was written.
build_max(lhs, rhs, w14) ==
    LET v4 == <<lhs.upper, rhs.upper>>              \* zip2
        v5 == <<rhs.lower, lhs.lower>>              \* zip1
        bit0 == FGt(v5[1], v4[1])                   \* fcmgt lane 0
        bit32 == FGt(v5[2], v4[2])                  \* fcmgt lane 1
    IN  IF bit32                                    \* -> lhs
        THEN [val |-> lhs, choice |-> Orr(w14, CHOICE_LEFT), simplify |-> TRUE]
        ELSE IF ~bit0                               \* -> both
        THEN [val |-> Iv(FMaxArm(lhs.lower, rhs.lower),
                         FMaxArm(lhs.upper, rhs.upper)),
              choice |-> Orr(w14, CHOICE_BOTH), simplify |-> FALSE]
        ELSE [val |-> rhs, choice |-> Orr(w14, CHOICE_RIGHT), simplify |-> TRUE]

\* build_min writing the flag byte in the Both branch too
build_min_flag(lhs, rhs, w14) ==
    LET bit0 == FGt(rhs.lower, lhs.upper)
        bit32 == FGt(lhs.lower, rhs.upper)
    IN  IF bit32
        THEN [val |-> rhs, choice |-> Orr(w14, CHOICE_RIGHT), simplify |-> TRUE]
        ELSE IF ~bit0
        THEN [val |-> Iv(FMinArm(lhs.lower, rhs.lower),
                         FMinArm(lhs.upper, rhs.upper)),
              choice |-> Orr(w14, CHOICE_BOTH), simplify |-> TRUE]
        ELSE [val |-> lhs, choice |-> Orr(w14, CHOICE_LEFT), simplify |-> TRUE]

\* build_min comparing with >= where the code compares with >
build_min_ge(lhs, rhs, w14) ==
    LET bit0 == FGe(rhs.lower, lhs.upper)
        bit32 == FGe(lhs.lower, rhs.upper)
    IN  IF bit32
        THEN [val |-> rhs, choice |-> Orr(w14, CHOICE_RIGHT), simplify |-> TRUE]
        ELSE IF ~bit0
        THEN [val |-> Iv(FMinArm(lhs.lower, rhs.lower),
                         FMinArm(lhs.upper, rhs.upper)),
              choice |-> Orr(w14, CHOICE_BOTH), simplify |-> FALSE]
        ELSE [val |-> lhs, choice |-> Orr(w14, CHOICE_LEFT), simplify |-> TRUE]

\* IntervalAssembler::build_min
build_min(lhs, rhs, w14) ==
    LET v4 == <<lhs.upper, rhs.upper>>              \* zip2
        v5 == <<rhs.lower, lhs.lower>>              \* zip1
        bit0 == FGt(v5[1], v4[1])                   \* fcmgt lane 0
        bit32 == FGt(v5[2], v4[2])                  \* fcmgt lane 1
    IN  IF bit32                                    \* -> rhs
        THEN [val |-> rhs, choice |-> Orr(w14, CHOICE_RIGHT), simplify |-> TRUE]
        ELSE IF ~bit0                               \* -> both
        THEN [val |-> Iv(FMinArm(lhs.lower, rhs.lower),
                         FMinArm(lhs.upper, rhs.upper)),
              choice |-> Orr(w14, CHOICE_BOTH), simplify |-> FALSE]
        ELSE [val |-> lhs, choice |-> Orr(w14, CHOICE_LEFT), simplify |-> TRUE]

----------------------------------------------------------------------------
(* Tape: a linear program in SSA form.  Op i writes slot i; lhs and rhs    *)
(* name the slots of earlier ops, and for Input lhs is the axis (1 = X,    *)
(* 2 = Y, 3 = Z).  The last op's output is the result.                     *)

Input(axis) == [op |-> "Input", lhs |-> axis, rhs |-> 0]
\* Var(i) reads the i-th variable, counted from 0
Var(i) == [op |-> "Var", lhs |-> i, rhs |-> 0]
Un(op, lhs) == [op |-> op, lhs |-> lhs, rhs |-> 0]
Bin(op, lhs, rhs) == [op |-> op, lhs |-> lhs, rhs |-> rhs]

UnaryOpcodes == {"Neg", "Abs", "Recip", "Sqrt", "Square", "Copy"}
BinaryOpcodes == {"Add", "Sub", "Mul", "Div", "Min", "Max"}

\* Min and Max are the only choice-bearing opcodes
IsChoiceOp(o) == o.op \in {"Min", "Max"}

\* Tape::var_count: the variables are numbered from 0 without gaps
var_count(t) == Cardinality({t[i].lhs : i \in {j \in 1..Len(t) : t[j].op = "Var"}})

\* Tape::choice_count
choice_count(t) == Cardinality({i \in 1..Len(t) : IsChoiceOp(t[i])})

\* The trail position of the choice op in slot i: the emitted code
\* post-increments x1 after every min/max
ChoiceIndex(t, i) == Cardinality({j \in 1..i : IsChoiceOp(t[j])})

\* IntervalAssembler::build_var: the variable src_arg, loaded from the slice
\* x0 points to, in both lanes
build_var(vs, src_arg) == Iv(vs[src_arg + 1], vs[src_arg + 1])

\* A store of the choice that leaves x1 where it is
strb_choice_fixed(st, c) ==
    [regs |-> Append(st.regs, c.val),
     trail |-> [st.trail EXCEPT ![st.x1] = c.choice],
     x1 |-> st.x1,
     simplify |-> st.simplify \/ c.simplify]

\* The end of build_min and build_max: c.choice is stored to the trail byte
\* x1 points to and x1 is advanced by one, in every branch; the flag byte is
\* written on Left and Right.  st is the machine state: regs (one interval
\* per slot written so far), trail (the bytes x1 points into), x1 (the
\* trail pointer, as an index) and simplify (the flag byte)
strb_choice(st, c) ==
    [regs |-> Append(st.regs, c.val),
     trail |-> [st.trail EXCEPT ![st.x1] = c.choice],
     x1 |-> st.x1 + 1,
     simplify |-> st.simplify \/ c.simplify]

\* The code emitted for one op, run on the machine state st; box holds the
\* X, Y and Z intervals and the variable slice
Step(o, st, box) ==
    LET l == IF o.op = "Input" THEN box[o.lhs]
             ELSE IF o.op = "Var" THEN build_var(box[4], o.lhs)
             ELSE st.regs[o.lhs]
        r == IF o.op \in BinaryOpcodes THEN st.regs[o.rhs] ELSE l
        put(v) == [st EXCEPT !.regs = Append(@, v)]
    IN  CASE o.op = "Input" -> put(l)
          [] o.op = "Var" -> put(l)
          [] o.op = "Copy" -> put(build_copy(l))
          [] o.op = "Neg" -> put(build_neg(l))
          [] o.op = "Abs" -> put(build_abs(l))
          [] o.op = "Recip" -> put(build_recip(l))
          [] o.op = "Sqrt" -> put(build_sqrt(l))
          [] o.op = "Square" -> put(build_square(l))
          [] o.op = "Add" -> put(build_add(l, r))
          [] o.op = "Sub" -> put(build_sub(l, r))
          [] o.op = "Mul" -> put(build_mul(l, r))
          [] o.op = "Div" -> put(build_div(l, r))
          [] o.op = "Max" -> strb_choice(st, build_max(l, r, st.trail[st.x1]))
          [] o.op = "Min" -> strb_choice(st, build_min(l, r, st.trail[st.x1]))

RECURSIVE Run(_, _, _, _)
Run(t, i, st, box) ==
    IF i > Len(t) THEN st ELSE Run(t, i + 1, Step(t[i], st, box), box)

\* JitIntervalEval.fn_interval: the function compiled from the ops t, called
\* with the X, Y, Z intervals, the variables and the trail and flag pointers.
\* The result is the machine state it leaves: the output interval is the
\* last slot of regs
fn_interval(t, x, y, z, vs, trail) ==
    Run(t, 1, [regs |-> <<>>, trail |-> trail, x1 |-> 1, simplify |-> FALSE],
        <<x, y, z, vs>>)

\* The code of a mapping: the ops emitted, the ret that finalize emits after
\* them, and whatever the mapping held behind
Ret == [op |-> "Ret", lhs |-> 0, rhs |-> 0]

\* IntervalAssembler::finalize
finalize(t) == Append(t, Ret)

\* The ops a call of the code executes: those before the first ret
Emitted(code) ==
    SubSeq(code, 1,
           (CHOOSE i \in 1..Len(code) :
                code[i] = Ret /\ \A j \in 1..(i - 1) : code[j] # Ret) - 1)

\* build_asm_fn_with_storage: the code of the tape t is written from the
\* start of the mapping prev, which keeps what it held behind the new code
build_asm_fn_with_storage(t, prev) ==
    finalize(t) \o SubSeq(prev, Len(t) + 2, Len(prev))

\* A constructor that hands reused storage back as it is, with the code the
\* donor left in it
new_with_storage_kept(t, prev) ==
    IF prev = <<>>
    THEN [mmap |-> build_asm_fn_with_storage(t, prev),
          var_count |-> var_count(t)]
    ELSE [mmap |-> prev, var_count |-> var_count(Emitted(prev))]

\* JitIntervalEval::new_with_storage; mmap is the code of the new mapping
new_with_storage(t, prev) ==
    [mmap |-> build_asm_fn_with_storage(t, prev), var_count |-> var_count(t)]

\* The bytes behind a trail slice shorter than the trail the code writes
Behind(n) == [i \in 1..(IF n > 0 THEN n ELSE 0) |-> CHOICE_UNKNOWN]

\* The tail of JitIntervalEval::eval_with: st is what fn_interval left, n the
\* length of the choices slice.  oob: fn_interval wrote behind the slice
eval_with_out(st, n) ==
    [val |-> new(st.regs[Len(st.regs)].lower, st.regs[Len(st.regs)].upper),
     choices |-> SubSeq(st.trail, 1, n),
     simplify |-> st.simplify,
     oob |-> st.x1 - 1 > n]

\* JitIntervalEval::eval_with; vs is the vars slice, trail the choices slice.
\* fn_interval gets the pointers only: a trail shorter than the trail the
\* code writes is written behind its end
eval_with(self, x, y, z, vs, trail) ==
    IF Len(vs) # self.var_count
    THEN [val |-> Panic, choices |-> trail, simplify |-> FALSE, oob |-> FALSE]
    ELSE eval_with_out(
             fn_interval(Emitted(self.mmap), x, y, z, vs,
                         trail \o Behind(choice_count(Emitted(self.mmap))
                                             - Len(trail))),
             Len(trail))

\* IntervalFuncT::get_evaluator: the evaluator of the function compiled from
\* the tape t into a new mapping
get_jit(t) == new_with_storage(t, <<>>)

----------------------------------------------------------------------------
(* IntervalEval (fidget-core/src/eval/interval.rs) *)

\* A reset that fills the trail with Both
reset_choices_both(c) == [i \in 1..Len(c) |-> CHOICE_BOTH]

\* reset_choices leaving the trail as it is
reset_choices_none(c) == c

\* IntervalEval::reset_choices
reset_choices(c) == [i \in 1..Len(c) |-> CHOICE_UNKNOWN]

\* The midpoint eval_subdiv_recurse cuts an axis at
Mid(i) == FAdd(i.lower, FDiv(FSub(i.upper, i.lower), Fin(2)))

\* The two halves eval_subdiv_recurse cuts the box into, along the longest
\* axis; dx, dy, dz are the widths of the axes
Split(x, y, z, dx, dy, dz, x_mid, y_mid, z_mid) ==
    IF FGe(dx, dy) /\ FGe(dx, dz)
    THEN <<<<new(x.lower, x_mid), y, z>>, <<new(x_mid, x.upper), y, z>>>>
    ELSE IF FGe(dy, dz)
    THEN <<<<x, new(y.lower, y_mid), z>>, <<x, new(y_mid, y.upper), z>>>>
    ELSE <<<<x, y, new(z.lower, z_mid)>>, <<x, y, new(z_mid, z.upper)>>>>

Halves(x, y, z) ==
    Split(x, y, z, FSub(x.upper, x.lower), FSub(y.upper, y.lower),
          FSub(z.upper, z.lower), Mid(x), Mid(y), Mid(z))

\* Whether building a half panicked in Interval::new
BadBox(h) == \E i \in 1..3 : IsPanic(h[i])

\* The end of eval_subdiv_recurse: the union of the two halves' results
Union(ra, rb) ==
    IF IsPanic(rb.val) THEN rb
    ELSE [val |-> new(FMinNum(ra.val.lower, rb.val.lower),
                      FMaxNum(ra.val.upper, rb.val.upper)),
          choices |-> rb.choices]

\* IntervalEval::eval_subdiv_recurse; c is self.choices.  A panic of
\* Interval::new ends the call with the trail as the leaves before it left it.
RECURSIVE eval_subdiv_recurse(_, _, _, _, _, _)
RECURSIVE SecondHalf(_, _, _, _)
RECURSIVE BothHalves(_, _, _, _)

\* The second recursive call, on the half h2, after the first returned ra
SecondHalf(t, h2, subdiv, ra) ==
    IF IsPanic(ra.val) \/ BadBox(h2)
    THEN Union(ra, [val |-> Panic, choices |-> ra.choices])
    ELSE Union(ra, eval_subdiv_recurse(t, h2[1], h2[2], h2[3], subdiv - 1,
                                       ra.choices))

\* The two recursive calls, on the halves h
BothHalves(t, h, subdiv, c) ==
    SecondHalf(t, h[2], subdiv,
               IF BadBox(h[1]) THEN [val |-> Panic, choices |-> c]
               ELSE eval_subdiv_recurse(t, h[1][1], h[1][2], h[1][3],
                                        subdiv - 1, c))

eval_subdiv_recurse(t, x, y, z, subdiv, c) ==
    IF subdiv = 0
    THEN eval_with(get_jit(t), x, y, z, <<>>, c)
    ELSE BothHalves(t, Halves(x, y, z), subdiv, c)

----------------------------------------------------------------------------
(* Tape::simplify_with_reg_limit, after section 4.3 of the specification.  *)

Arity(o) ==
    IF o.op = "Input" THEN 0 ELSE IF o.op \in BinaryOpcodes THEN 2 ELSE 1

\* The slot whose value slot i takes once the trail c is applied: a Min/Max
\* with choice Left (Right) is a Copy of its lhs (rhs), a Min/Max whose
\* operands are identical after substitution is a Copy, and Copy chains
\* collapse.
RECURSIVE Resolve(_, _, _)
Resolve(t, c, i) ==
    LET o == t[i]
    IN  IF o.op = "Copy" THEN Resolve(t, c, o.lhs)
        ELSE IF IsChoiceOp(o)
        THEN LET ch == c[ChoiceIndex(t, i)]
             IN  IF ch = CHOICE_LEFT THEN Resolve(t, c, o.lhs)
                 ELSE IF ch = CHOICE_RIGHT THEN Resolve(t, c, o.rhs)
                 ELSE IF Resolve(t, c, o.lhs) = Resolve(t, c, o.rhs)
                 THEN Resolve(t, c, o.lhs)
                 ELSE i
        ELSE i

\* Backward liveness from slot i
RECURSIVE LiveFrom(_, _, _)
LiveFrom(t, c, i) ==
    LET r == Resolve(t, c, i)
        o == t[r]
    IN  {r} \cup (IF Arity(o) >= 1 THEN LiveFrom(t, c, o.lhs) ELSE {})
            \cup (IF Arity(o) = 2 THEN LiveFrom(t, c, o.rhs) ELSE {})

\* A simplifier that returns the tape as it is
simplify_none(t, c) == t

\* Forward rewrite: the live ops in their original order, operands renamed
simplify_with_reg_limit(t, c) ==
    LET live == LiveFrom(t, c, Len(t))
        slot(i) == Cardinality({j \in live : j <= Resolve(t, c, i)})
        nth(n) == CHOOSE i \in live : Cardinality({j \in live : j <= i}) = n
    IN  [n \in 1..Cardinality(live) |->
            LET o == t[nth(n)]
            IN  [op |-> o.op,
                 lhs |-> IF Arity(o) >= 1 THEN slot(o.lhs) ELSE o.lhs,
                 rhs |-> IF Arity(o) = 2 THEN slot(o.rhs) ELSE 0]]

----------------------------------------------------------------------------
(* Point evaluation of a tape, after the specification: every op is the    *)
(* f32 operation.  How min and max treat a NaN operand is not specified;   *)
(* nan is "num" (f32::min, fminnm: the NaN is ignored) or "arm" (fmin: the *)
(* result is NaN).                                                         *)

NanModes == {"num", "arm"}

PointStep(o, regs, p, nan) ==
    LET l == IF o.op = "Input" THEN p[o.lhs] ELSE regs[o.lhs]
        r == IF o.op \in BinaryOpcodes THEN regs[o.rhs] ELSE l
    IN  CASE o.op = "Input" -> l
          [] o.op = "Copy" -> l
          [] o.op = "Neg" -> FNeg(l)
          [] o.op = "Abs" -> FAbs(l)
          [] o.op = "Recip" -> FDiv(Fin(1), l)
          [] o.op = "Sqrt" -> FSqrt(l)
          [] o.op = "Square" -> FMul(l, l)
          [] o.op = "Add" -> FAdd(l, r)
          [] o.op = "Sub" -> FSub(l, r)
          [] o.op = "Mul" -> FMul(l, r)
          [] o.op = "Div" -> FDiv(l, r)
          [] o.op = "Max" -> IF nan = "num" THEN FMaxNum(l, r) ELSE FMaxArm(l, r)
          [] o.op = "Min" -> IF nan = "num" THEN FMinNum(l, r) ELSE FMinArm(l, r)

\* The values of all slots at the point p
RECURSIVE PointRegs(_, _, _, _, _)
PointRegs(t, i, regs, p, nan) ==
    IF i > Len(t) THEN regs
    ELSE PointRegs(t, i + 1, Append(regs, PointStep(t[i], regs, p, nan)), p, nan)

point_eval(t, p, nan) == PointRegs(t, 1, <<>>, p, nan)[Len(t)]

----------------------------------------------------------------------------
(* SpecOps: one interval operation applied to operands drawn from a        *)
(* bounded set.                                                            *)

\* The f32 values interval bounds are drawn from
Vals == {Fin(n) : n \in -MaxVal..MaxVal} \cup {NInf, PInf}

\* The intervals Interval::new accepts
Intervals == {Iv(l, u) : <<l, u>> \in {p \in Vals \X Vals : FLe(p[1], p[2])}}
                 \cup {NaNInterval}

\* The evaluator state of SpecTape, left alone by SpecOps
NoTape == <<>>
NoCall == [fn |-> "none"]
NoRet == [kind |-> "none"]

\* The JIT handles of SpecJit, left alone by SpecOps and SpecTape
NoMaps == <<>>
NoEvals == <<>>
NoOut == [kind |-> "none"]

\* res before any operation
NoRes == [impl |-> "none", op |-> "none", val |-> NaNInterval,
          choice |-> CHOICE_UNKNOWN, simplify |-> FALSE, w14 |-> CHOICE_UNKNOWN]

OpRes(impl, op, val) ==
    [impl |-> impl, op |-> op, val |-> val,
     choice |-> CHOICE_UNKNOWN, simplify |-> FALSE, w14 |-> CHOICE_UNKNOWN]

InitOps ==
    /\ a \in Intervals
    /\ b \in Intervals
    /\ res = NoRes
    /\ tape = NoTape
    /\ choices = <<>>
    /\ last = NoCall
    /\ ret = NoRet
    /\ stale = FALSE
    /\ maps = NoMaps
    /\ evals = NoEvals
    /\ out = NoOut

opsFrame == <<a, b, tape, choices, last, ret, stale, maps, evals, out>>

CoreAbs ==
    /\ res' = OpRes("core", "abs", abs(a))
    /\ UNCHANGED opsFrame
CoreSqrt ==
    /\ res' = OpRes("core", "sqrt", sqrt(a))
    /\ UNCHANGED opsFrame
CoreRecip ==
    /\ res' = OpRes("core", "recip", recip(a))
    /\ UNCHANGED opsFrame
CoreNeg ==
    /\ res' = OpRes("core", "neg", neg(a))
    /\ UNCHANGED opsFrame
CoreAdd ==
    /\ res' = OpRes("core", "add", add(a, b))
    /\ UNCHANGED opsFrame
CoreSub ==
    /\ res' = OpRes("core", "sub", sub(a, b))
    /\ UNCHANGED opsFrame
CoreMul ==
    /\ res' = OpRes("core", "mul", mul(a, b))
    /\ UNCHANGED opsFrame
CoreMin ==
    /\ res' = LET r == min_choice(a, b)
              IN  [OpRes("core", "min", r.val) EXCEPT !.choice = r.choice]
    /\ UNCHANGED opsFrame
CoreMax ==
    /\ res' = LET r == max_choice(a, b)
              IN  [OpRes("core", "max", r.val) EXCEPT !.choice = r.choice]
    /\ UNCHANGED opsFrame

JitNeg ==
    /\ res' = OpRes("jit", "neg", build_neg(a))
    /\ UNCHANGED opsFrame
JitAbs ==
    /\ res' = OpRes("jit", "abs", build_abs(a))
    /\ UNCHANGED opsFrame
JitRecip ==
    /\ res' = OpRes("jit", "recip", build_recip(a))
    /\ UNCHANGED opsFrame
JitSqrt ==
    /\ res' = OpRes("jit", "sqrt", build_sqrt(a))
    /\ UNCHANGED opsFrame
JitSquare ==
    /\ res' = OpRes("jit", "square", build_square(a))
    /\ UNCHANGED opsFrame
JitAdd ==
    /\ res' = OpRes("jit", "add", build_add(a, b))
    /\ UNCHANGED opsFrame
JitSub ==
    /\ res' = OpRes("jit", "sub", build_sub(a, b))
    /\ UNCHANGED opsFrame
JitMul ==
    /\ res' = OpRes("jit", "mul", build_mul(a, b))
    /\ UNCHANGED opsFrame
JitDiv ==
    /\ res' = OpRes("jit", "div", build_div(a, b))
    /\ UNCHANGED opsFrame
JitMax ==
    /\ \E w14 \in Choice :
           res' = LET r == build_max(a, b, w14)
                  IN  [impl |-> "jit", op |-> "max", val |-> r.val,
                       choice |-> r.choice, simplify |-> r.simplify,
                       w14 |-> w14]
    /\ UNCHANGED opsFrame
JitMin ==
    /\ \E w14 \in Choice :
           res' = LET r == build_min(a, b, w14)
                  IN  [impl |-> "jit", op |-> "min", val |-> r.val,
                       choice |-> r.choice, simplify |-> r.simplify,
                       w14 |-> w14]
    /\ UNCHANGED opsFrame

NextOps ==
    \/ CoreAbs \/ CoreSqrt \/ CoreRecip \/ CoreNeg
    \/ CoreAdd \/ CoreSub \/ CoreMul \/ CoreMin \/ CoreMax
    \/ JitNeg \/ JitAbs \/ JitRecip \/ JitSqrt \/ JitSquare
    \/ JitAdd \/ JitSub \/ JitMul \/ JitDiv \/ JitMax \/ JitMin

SpecOps == InitOps /\ [][NextOps]_vars

----------------------------------------------------------------------------
(* Claims about single interval operations (checked under SpecOps) *)

\* A valid interval: lower <= upper, neither NaN
Valid(i) == ~IsPanic(i) /\ FLe(i.lower, i.upper)

\* The lesser and the greater of two non-NaN values
Lesser(x, y) == IF FLe(x, y) THEN x ELSE y
Greater(x, y) == IF FLe(x, y) THEN y ELSE x

\* C1: for valid intervals [a,b] and [c,d], interval min returns
\* [min(a,c), min(b,d)] and the choice Left if b < c, otherwise Right if
\* d < a, otherwise Both, in Interval::min_choice and in the code emitted by
\* build_min, which ORs the choice into the trail byte and returns the lhs or
\* rhs unchanged on Left or Right.
C1_MinContract ==
    (res.op = "min" /\ Valid(a) /\ Valid(b)) =>
        LET choice == IF FLt(a.upper, b.lower) THEN CHOICE_LEFT
                      ELSE IF FLt(b.upper, a.lower) THEN CHOICE_RIGHT
                      ELSE CHOICE_BOTH
        IN  /\ res.val = Iv(Lesser(a.lower, b.lower), Lesser(a.upper, b.upper))
            /\ res.choice = Orr(res.w14, choice)
            /\ (res.impl = "jit" /\ choice = CHOICE_LEFT) => res.val = a
            /\ (res.impl = "jit" /\ choice = CHOICE_RIGHT) => res.val = b

C1_Witness ==
    /\ res.op = "min" /\ res.impl = "jit" /\ res.w14 = CHOICE_UNKNOWN
    /\ Valid(a) /\ Valid(b) /\ FLt(b.upper, a.lower)
    /\ res.choice = CHOICE_RIGHT /\ res.val = b

\* C2: for valid intervals [a,b] and [c,d], interval max returns
\* [max(a,c), max(b,d)] and the choice Left if a > d, otherwise Right if
\* c > b, otherwise Both, in Interval::max_choice and in the code emitted by
\* build_max, which returns the lhs or rhs unchanged on Left or Right.
C2_MaxContract ==
    (res.op = "max" /\ Valid(a) /\ Valid(b)) =>
        LET choice == IF FGt(a.lower, b.upper) THEN CHOICE_LEFT
                      ELSE IF FGt(b.lower, a.upper) THEN CHOICE_RIGHT
                      ELSE CHOICE_BOTH
        IN  /\ res.val = Iv(Greater(a.lower, b.lower), Greater(a.upper, b.upper))
            /\ res.choice = Orr(res.w14, choice)
            /\ (res.impl = "jit" /\ choice = CHOICE_LEFT) => res.val = a
            /\ (res.impl = "jit" /\ choice = CHOICE_RIGHT) => res.val = b

C2_Witness ==
    /\ res.op = "max" /\ res.impl = "jit" /\ res.w14 = CHOICE_UNKNOWN
    /\ Valid(a) /\ Valid(b) /\ FGt(a.lower, b.upper)
    /\ res.choice = CHOICE_LEFT /\ res.val = a

\* Whether zero lies in a valid interval
ContainsZero(i) == FLe(i.lower, Zero) /\ FLe(Zero, i.upper)

\* C8: interval recip of a valid interval returns (NaN, NaN) when the
\* interval contains zero and [1/upper, 1/lower] otherwise, in
\* Interval::recip and in the code emitted by build_recip, and does not panic.
C8_RecipContract ==
    (res.op = "recip" /\ Valid(a)) =>
        /\ ~IsPanic(res.val)
        /\ res.val = IF ContainsZero(a) THEN NaNInterval
                     ELSE Iv(FDiv(Fin(1), a.upper), FDiv(Fin(1), a.lower))

\* C9: interval sqrt of a valid interval [a,b] returns [sqrt a, sqrt b] if
\* a >= 0, (NaN, NaN) if b < 0 and [0, sqrt b] in every other case, in
\* Interval::sqrt and in the code emitted by build_sqrt.
C9_SqrtContract ==
    (res.op = "sqrt" /\ Valid(a)) =>
        res.val = IF FGe(a.lower, Zero) THEN Iv(FSqrt(a.lower), FSqrt(a.upper))
                  ELSE IF FLt(a.upper, Zero) THEN NaNInterval
                  ELSE Iv(Zero, FSqrt(a.upper))

\* The operations C10 names, and those of them that take two operands
C10Ops == {"add", "sub", "mul", "neg", "abs", "sqrt", "min", "max"}
BinaryOps == {"add", "sub", "mul", "div", "min", "max"}

\* C10: for add, sub, mul, neg, abs, sqrt, min and max, if an operand is the
\* invalid interval (NaN, NaN) the result is (NaN, NaN), without a panic.
C10_NaNPropagates ==
    (/\ res.op \in C10Ops
     /\ a = NaNInterval \/ (res.op \in BinaryOps /\ b = NaNInterval)) =>
        res.val = NaNInterval

----------------------------------------------------------------------------
(* SpecTape: an IntervalEval over one tape, called any number of times.    *)

X == Input(1)
Y == Input(2)
Z == Input(3)

\* The tapes evaluators are built from
Tapes == {
    <<X, Y, Bin("Min", 1, 2)>>,
    <<X, Y, Bin("Max", 1, 2)>>,
    <<X, Y, Z, Bin("Max", 2, 3), Bin("Min", 1, 4)>>,
    <<X, Y, Bin("Min", 1, 2), Z, Bin("Max", 3, 4)>>,
    <<X, Un("Sqrt", 1), Y, Bin("Min", 2, 3)>>,
    <<Y, X, Un("Sqrt", 2), Bin("Max", 1, 3)>>,
    <<X, Y, Bin("Min", 1, 2), Bin("Max", 1, 2), Bin("Add", 3, 4)>>,
    <<X, Un("Neg", 1), Y, Un("Abs", 3), Bin("Min", 2, 4)>>,
    <<X, Un("Recip", 1), Y, Bin("Max", 2, 3)>>,
    <<X, Y, Bin("Mul", 1, 2), Z, Bin("Min", 3, 4)>>,
    <<X, Y, Bin("Sub", 1, 2), Bin("Max", 3, 2)>>,
    <<X, Un("Square", 1), Y, Un("Square", 3), Bin("Add", 2, 4),
      Un("Sqrt", 5), Z, Bin("Sub", 6, 7)>>,
    <<X, Bin("Min", 1, 1)>>,
    <<X, Y, Bin("Div", 1, 2), Z, Bin("Max", 3, 4)>>,
    <<X, Y, Bin("Min", 1, 2), Bin("Max", 1, 2), Bin("Min", 3, 4)>> }

\* The bounds of the regions evaluated
Coords == {Fin(-MaxVal), Zero, Fin(MaxVal)}
BoxIntervals == {Iv(l, u) : <<l, u>> \in {p \in Coords \X Coords : FLe(p[1], p[2])}}
ZIntervals == {Iv(Zero, Zero), Iv(Zero, Fin(MaxVal))}

tapeFrame == <<a, b, res, tape, maps, evals, out>>

\* IntervalFunc::get_evaluator
InitTape ==
    /\ a = NaNInterval
    /\ b = NaNInterval
    /\ res = NoRes
    /\ tape \in Tapes
    /\ choices = [i \in 1..choice_count(tape) |-> CHOICE_UNKNOWN]
    /\ last = NoCall
    /\ ret = NoRet
    /\ stale = FALSE
    /\ maps = NoMaps
    /\ evals = NoEvals
    /\ out = NoOut

\* Whether the trail c0 has a bit set that the trail c1 lacks
Leaks(c0, c1) == \E i \in 1..Len(c0) : Orr(c0[i], c1[i]) # c1[i]

\* What a call of the evaluator leaves: the trail and the value of r, and the
\* record of the call
Called(call, r) ==
    /\ choices' = r.choices
    /\ ret' = [kind |-> "interval", val |-> r.val]
    /\ last' = call
    /\ stale' = Leaks(choices, r.choices)

\* IntervalEval::eval_i
eval_i ==
    /\ last = NoCall
    /\ \E x \in BoxIntervals, y \in BoxIntervals, z \in ZIntervals :
        Called([fn |-> "eval_i", x |-> x, y |-> y, z |-> z, subdiv |-> 0],
               eval_with(get_jit(tape), x, y, z, <<>>,
                         reset_choices(choices)))
    /\ UNCHANGED tapeFrame

\* IntervalEval::eval_i_subdiv
eval_i_subdiv ==
    /\ last = NoCall
    /\ \E x \in BoxIntervals, y \in BoxIntervals, z \in ZIntervals,
          subdiv \in 0..MaxDepth :
        Called([fn |-> "eval_i_subdiv", x |-> x, y |-> y, z |-> z,
                subdiv |-> subdiv],
               eval_subdiv_recurse(tape, x, y, z, subdiv,
                                   reset_choices(choices)))
    /\ UNCHANGED tapeFrame

\* IntervalEval::simplify
simplify ==
    /\ ret.kind # "tape"
    /\ ret' = [kind |-> "tape", val |-> simplify_with_reg_limit(tape, choices)]
    /\ UNCHANGED <<tapeFrame, choices, last, stale>>

\* The caller is done with what the call returned; the evaluator, and the
\* trail the call left in it, stay as they are
Return ==
    /\ last # NoCall \/ ret # NoRet
    /\ last' = NoCall
    /\ ret' = NoRet
    /\ stale' = FALSE
    /\ UNCHANGED <<tapeFrame, choices>>

NextTape == eval_i \/ eval_i_subdiv \/ simplify \/ Return

SpecTape == InitTape /\ [][NextTape]_vars

----------------------------------------------------------------------------
(* SpecJit: JitIntervalEval handles and the executable mappings behind     *)
(* them.  A mapping is an owned Mmap in the caller's hands ("storage"),    *)
(* inside build_asm_fn_with_storage ("building") or behind an Arc ("arc",  *)
(* with its strong count); clone, drop and take act on the Arc atomically, *)
(* and codegen into one mapping interleaves with calls on the others.      *)

MapIds == 1..MaxMaps
EvalIds == 1..MaxEvals

\* The tapes functions are compiled from
JitTapes == {
    <<X, Y, Bin("Min", 1, 2)>>,
    <<X, Var(0), Bin("Max", 1, 2)>>,
    <<X, Y, Var(0), Bin("Max", 2, 3), Bin("Min", 1, 4)>> }

\* The arguments eval_with is called with
JitX == {Iv(Fin(-MaxVal), Fin(-MaxVal)), Iv(Zero, Zero),
         Iv(Fin(MaxVal), Fin(MaxVal)), Iv(Fin(-MaxVal), Fin(MaxVal))}
JitY == Iv(Zero, Zero)
JitZ == Iv(Zero, Zero)
VarSlices == {<<>>, <<Zero>>, <<Zero, Zero>>}
TrailLens == UNION {{n \in (choice_count(t) - 1)..(choice_count(t) + 1) :
                         n >= 0} : t \in JitTapes}
TrailSlices == {Behind(n) : n \in TrailLens}
                   \cup {[i \in 1..n |-> CHOICE_LEFT] : n \in TrailLens}

NoMap == [state |-> "none", code |-> <<>>, strong |-> 0, job |-> <<>>]
NoEval == [live |-> FALSE]

InitJit ==
    /\ a = NaNInterval
    /\ b = NaNInterval
    /\ res = NoRes
    /\ tape = NoTape
    /\ choices = <<>>
    /\ last = NoCall
    /\ ret = NoRet
    /\ stale = FALSE
    /\ maps = [m \in MapIds |-> NoMap]
    /\ evals = [h \in EvalIds |-> NoEval]
    /\ out = NoOut

jitFrame == <<a, b, res, tape, choices, last, ret, stale>>

\* A take that hands the mapping out whatever the strong count is
try_unwrap_any(strong) == TRUE

\* Arc::try_unwrap(..).ok() is Some: the strong count is one
try_unwrap(strong) == strong = 1

\* Mmap::new: the caller gets a new, empty mapping
NewStorage ==
    /\ out = NoOut
    /\ \E m \in MapIds :
        /\ maps[m].state = "none"
        /\ maps' = [maps EXCEPT ![m].state = "storage"]
    /\ UNCHANGED <<jitFrame, evals, out>>

\* JitIntervalEval::new_with_storage, entered: the storage is moved into
\* build_asm_fn_with_storage, which starts to write the code of the tape
BeginBuild ==
    /\ out = NoOut
    /\ \E m \in MapIds, t \in JitTapes :
        /\ maps[m].state = "storage"
        /\ maps' = [maps EXCEPT ![m].state = "building", ![m].job = t]
    /\ UNCHANGED <<jitFrame, evals, out>>

\* JitIntervalEval::new_with_storage, returning the handle
EndBuild ==
    /\ out = NoOut
    /\ \E m \in MapIds, h \in EvalIds :
        /\ maps[m].state = "building"
        /\ ~evals[h].live
        /\ LET self == new_with_storage(maps[m].job, maps[m].code)
           IN  /\ maps' = [maps EXCEPT ![m] = [state |-> "arc",
                                               code |-> self.mmap,
                                               strong |-> 1, job |-> <<>>]]
               /\ evals' = [evals EXCEPT ![h] = [live |-> TRUE, mmap |-> m,
                                                 fn_interval |-> m,
                                                 var_count |-> self.var_count,
                                                 tape |-> maps[m].job]]
    /\ UNCHANGED <<jitFrame, out>>

\* #[derive(Clone)] for JitIntervalEval
Clone ==
    /\ out = NoOut
    /\ \E h \in EvalIds, c \in EvalIds :
        /\ evals[h].live
        /\ ~evals[c].live
        /\ evals' = [evals EXCEPT ![c] = evals[h]]
        /\ maps' = [maps EXCEPT ![evals[h].mmap].strong = @ + 1]
    /\ UNCHANGED <<jitFrame, out>>

\* What the release of one strong reference leaves of the mapping: the last
\* one unmaps it
Release(m) == IF m.strong = 1 THEN NoMap ELSE [m EXCEPT !.strong = @ - 1]

\* Drop of a JitIntervalEval
Drop ==
    /\ out = NoOut
    /\ \E h \in EvalIds :
        /\ evals[h].live
        /\ evals' = [evals EXCEPT ![h] = NoEval]
        /\ maps' = [maps EXCEPT ![evals[h].mmap] = Release(@)]
    /\ UNCHANGED <<jitFrame, out>>

\* JitIntervalEval::take
Take ==
    /\ out = NoOut
    /\ \E h \in EvalIds :
        /\ evals[h].live
        /\ evals' = [evals EXCEPT ![h] = NoEval]
        /\ IF try_unwrap(maps[evals[h].mmap].strong)
           THEN /\ maps' = [maps EXCEPT ![evals[h].mmap].state = "storage",
                                        ![evals[h].mmap].strong = 0]
                /\ out' = [kind |-> "take", some |-> TRUE,
                           mmap |-> evals[h].mmap]
           ELSE /\ maps' = [maps EXCEPT ![evals[h].mmap] = Release(@)]
                /\ out' = [kind |-> "take", some |-> FALSE,
                           mmap |-> evals[h].mmap]
    /\ UNCHANGED jitFrame

\* How a call of eval_with that returned r ends.  A write behind the trail
\* slice is undefined behaviour: the call may crash or return
Outcomes(r) ==
    IF IsPanic(r.val) THEN {"panic"}
    ELSE IF r.oob THEN {"crash", "returned"}
    ELSE {"returned"}

\* JitIntervalEval::eval_with
EvalWith ==
    /\ out = NoOut
    /\ \E h \in EvalIds, x \in JitX, vs \in VarSlices, trail \in TrailSlices :
        /\ evals[h].live
        /\ \E outcome \in Outcomes(
                eval_with([mmap |-> maps[evals[h].fn_interval].code,
                           var_count |-> evals[h].var_count],
                          x, JitY, JitZ, vs, trail)) :
            out' = [kind |-> "eval", h |-> h, x |-> x, vs |-> vs,
                    trail |-> trail, outcome |-> outcome,
                    r |-> eval_with([mmap |-> maps[evals[h].fn_interval].code,
                                     var_count |-> evals[h].var_count],
                                    x, JitY, JitZ, vs, trail)]
    /\ UNCHANGED <<jitFrame, maps, evals>>

\* The caller is done with what the call returned
Done ==
    /\ out # NoOut
    /\ out' = NoOut
    /\ UNCHANGED <<jitFrame, maps, evals>>

NextJit ==
    \/ NewStorage \/ BeginBuild \/ EndBuild \/ Clone \/ Drop \/ Take
    \/ EvalWith \/ Done

SpecJit == InitJit /\ [][NextJit]_vars

----------------------------------------------------------------------------
(* Properties of single operations on points (SpecOps) *)

\* The f32 operation a point evaluation applies for the interval operation
\* op; min and max never see a NaN operand here
PointOf(op, x, y) ==
    CASE op = "abs" -> FAbs(x)
      [] op = "sqrt" -> FSqrt(x)
      [] op = "recip" -> FDiv(Fin(1), x)
      [] op = "neg" -> FNeg(x)
      [] op = "square" -> FMul(x, x)
      [] op = "add" -> FAdd(x, y)
      [] op = "sub" -> FSub(x, y)
      [] op = "mul" -> FMul(x, y)
      [] op = "div" -> FDiv(x, y)
      [] op = "min" -> FMinNum(x, y)
      [] op = "max" -> FMaxNum(x, y)

\* The values of Vals inside a valid interval
PointsOf(i) == {v \in Vals : FLe(i.lower, v) /\ FLe(v, i.upper)}

\* C5: for every operation, every valid operand interval(s) and every point
\* in them, the point value lies between the lower and the upper bound of the
\* interval result, or the interval result is (NaN, NaN).
C5_Soundness ==
    (res.op # "none" /\ Valid(a) /\ (res.op \in BinaryOps => Valid(b))) =>
        \/ res.val = NaNInterval
        \/ /\ ~IsPanic(res.val)
           /\ \A x \in PointsOf(a) :
                \A y \in (IF res.op \in BinaryOps THEN PointsOf(b) ELSE {x}) :
                    /\ FLe(res.val.lower, PointOf(res.op, x, y))
                    /\ FLe(PointOf(res.op, x, y), res.val.upper)

----------------------------------------------------------------------------
(* Properties of the evaluator (SpecTape) *)

\* The trail of a new evaluator of the tape: IntervalFunc::get_evaluator
Fresh == [i \in 1..choice_count(tape) |-> CHOICE_UNKNOWN]

\* What the last call returns, and the trail it leaves, in a new evaluator
LastCall ==
    eval_subdiv_recurse(tape, last.x, last.y, last.z, last.subdiv, Fresh)

\* The points of the grid inside the region of the last call
Grid == {Fin(n) : n \in -MaxVal..MaxVal}
Inside(i) == {v \in Grid : FLe(i.lower, v) /\ FLe(v, i.upper)}
Region == {<<x, y, z>> : x \in Inside(last.x), y \in Inside(last.y),
                         z \in Inside(last.z)}

\* Whether every operation of the tape t has a value other than NaN at p
NoNaN(t, p) ==
    \A i \in 1..Len(t) : ~IsNaN(PointRegs(t, 1, <<>>, p, "num")[i])

\* C3 as stated: after an interval evaluation over a region and a simplify
\* with the trail it left, the simplified tape and the tape have the same
\* point value at every point of the region.
C3_AsStated ==
    (ret.kind = "tape" /\ last.fn # "none" /\ ~IsPanic(LastCall.val)) =>
        \A p \in Region : \A nan \in NanModes :
            point_eval(ret.val, p, nan) = point_eval(tape, p, nan)

\* C3: after an interval evaluation over a region and a simplify with the
\* trail it left, the simplified tape and the tape have the same point value
\* at every point of the region at which no operation of the tape evaluates
\* to NaN.
C3_ChoiceCorrectness ==
    (ret.kind = "tape" /\ last.fn # "none" /\ ~IsPanic(LastCall.val)) =>
        \A p \in Region : \A nan \in NanModes :
            NoNaN(tape, p) =>
                point_eval(ret.val, p, nan) = point_eval(tape, p, nan)

C3_Witness ==
    /\ ret.kind = "tape" /\ last.fn # "none" /\ ~IsPanic(LastCall.val)
    /\ choice_count(ret.val) < choice_count(tape)
    /\ \E p \in Region :
        /\ NoNaN(tape, p)
        /\ \A nan \in NanModes :
            point_eval(ret.val, p, nan) = point_eval(tape, p, nan)

\* Every trail of the length the tape t asks for
AllTrails(t) == [1..choice_count(t) -> Choice]

\* Whether the trail c has a Left or a Right entry
Decided(c) == \E i \in 1..Len(c) : c[i] \in {CHOICE_LEFT, CHOICE_RIGHT}

\* C4: for every trail of the tape's length, the simplified tape has at most
\* as many choice operations as the tape, and fewer when the trail has a Left
\* or a Right entry; so has the tape simplify returned.
C4_ChoiceCountMonotone ==
    ret.kind = "tape" =>
        /\ choice_count(ret.val) <= choice_count(tape)
        /\ Decided(choices) => choice_count(ret.val) < choice_count(tape)
        /\ \A c \in AllTrails(tape) :
            /\ choice_count(simplify_with_reg_limit(tape, c))
                   <= choice_count(tape)
            /\ Decided(c) =>
                   choice_count(simplify_with_reg_limit(tape, c))
                       < choice_count(tape)

C4_Witness ==
    /\ ret.kind = "tape"
    /\ Decided(choices)
    /\ choice_count(ret.val) < choice_count(tape)

\* C6: after any sequence of eval_i and eval_i_subdiv calls the trail is the
\* one the most recent call leaves in a new evaluator, whatever the calls
\* before it left, and simplify returns the tape simplified with that trail.
C6_TrailFromLastCall ==
    last.fn # "none" =>
        /\ choices = LastCall.choices
        /\ ret.kind = "tape" =>
               ret.val = simplify_with_reg_limit(tape, LastCall.choices)

C6_Witness ==
    /\ last.fn # "none"
    /\ stale
    /\ ret.kind = "tape"
    /\ choices = LastCall.choices

\* The leaves eval_subdiv_recurse evaluates
RECURSIVE LeafBoxes(_, _, _, _)
LeafBoxes(x, y, z, subdiv) ==
    IF subdiv = 0 THEN {<<x, y, z>>}
    ELSE LET h == Halves(x, y, z)
         IN  LeafBoxes(h[1][1], h[1][2], h[1][3], subdiv - 1)
                 \cup LeafBoxes(h[2][1], h[2][2], h[2][3], subdiv - 1)

LastLeaves == LeafBoxes(last.x, last.y, last.z, last.subdiv)

\* The choices one leaf emits: its trail in a new evaluator
LeafTrail(box) ==
    fn_interval(tape, box[1], box[2], box[3], <<>>, Fresh).trail

\* The bitwise OR of a set of choices
BitOr(S) ==
    (IF \E c \in S : c \in {CHOICE_LEFT, CHOICE_BOTH} THEN 1 ELSE 0)
        + (IF \E c \in S : c \in {CHOICE_RIGHT, CHOICE_BOTH} THEN 2 ELSE 0)

\* C7: when eval_i_subdiv returns, every trail entry is the bitwise OR of the
\* choices the leaves emitted for that operation, and of nothing else: the
\* trail was reset before the first leaf and not between leaves.
C7_SubdivTrailIsOr ==
    (last.fn = "eval_i_subdiv" /\ ret.kind = "interval" /\ ~IsPanic(ret.val)) =>
        \A i \in 1..Len(choices) :
            choices[i] = BitOr({LeafTrail(box)[i] : box \in LastLeaves})

C7_Witness ==
    /\ last.fn = "eval_i_subdiv" /\ ret.kind = "interval" /\ ~IsPanic(ret.val)
    /\ stale
    /\ \E i \in 1..Len(choices) :
        /\ choices[i] = CHOICE_BOTH
        /\ \E box \in LastLeaves : LeafTrail(box)[i] = CHOICE_LEFT
        /\ \E box \in LastLeaves : LeafTrail(box)[i] = CHOICE_RIGHT

----------------------------------------------------------------------------
(* Properties of the JIT handles (SpecJit) *)

\* The handle the last eval_with was called on
OutEval == evals[out.h]

\* Whether the slices of the last eval_with fit the tape of its handle
VarsFit == Len(out.vs) = var_count(OutEval.tape)
TrailFits == Len(out.trail) = choice_count(OutEval.tape)

\* C11: an eval_with called with a vars slice whose length is not the tape's
\* variable count, or a trail whose length is not the tape's choice count,
\* fails fatally: nothing is returned and no trail entry is written.
C11_ShapeMismatchFatal ==
    (out.kind = "eval" /\ (~VarsFit \/ ~TrailFits)) =>
        /\ out.outcome = "panic"
        /\ out.r.choices = out.trail

\* The handles that can execute the mapping m
Holders(m) == {h \in EvalIds : evals[h].live /\ evals[h].mmap = m}

\* C12: a mapping in the caller's hands or being overwritten by a codegen has
\* no handle that can execute it; the strong count of a shared mapping is the
\* number of its handles and the code a handle points to is behind its Arc;
\* take returns Some exactly when no other handle of the mapping is alive.
C12_ExclusiveOwner ==
    /\ \A m \in MapIds :
        /\ maps[m].state \in {"storage", "building"} => Holders(m) = {}
        /\ maps[m].state = "arc" =>
               maps[m].strong = Cardinality(Holders(m)) /\ maps[m].strong >= 1
    /\ \A h \in EvalIds :
        evals[h].live => /\ evals[h].fn_interval = evals[h].mmap
                         /\ maps[evals[h].mmap].state = "arc"
    /\ out.kind = "take" => (out.some <=> Holders(out.mmap) = {})

C12_Witness ==
    /\ \E m \in MapIds : maps[m].state = "building" /\ maps[m].code # <<>>
    /\ \E m \in MapIds : maps[m].state = "arc" /\ maps[m].strong = MaxEvals

\* The intervals every op of the handle's tape had in the last eval_with
OutRegs ==
    fn_interval(OutEval.tape, out.x, JitY, JitZ, out.vs,
                out.trail \o Behind(choice_count(OutEval.tape)
                                        - Len(out.trail))).regs

\* The choice a min or max op emits for the operand intervals l and r
Emits(o, l, r) ==
    IF o.op = "Min"
    THEN IF FLt(l.upper, r.lower) THEN CHOICE_LEFT
         ELSE IF FLt(r.upper, l.lower) THEN CHOICE_RIGHT
         ELSE CHOICE_BOTH
    ELSE IF FGt(l.lower, r.upper) THEN CHOICE_LEFT
         ELSE IF FGt(r.lower, l.upper) THEN CHOICE_RIGHT
         ELSE CHOICE_BOTH

\* The choice the op in slot i emitted in the last eval_with
OutEmits(i) ==
    Emits(OutEval.tape[i], OutRegs[OutEval.tape[i].lhs],
          OutRegs[OutEval.tape[i].rhs])

\* The slots of the min and max ops of the handle's tape
OutChoiceOps == {i \in 1..Len(OutEval.tape) : IsChoiceOp(OutEval.tape[i])}

\* C13: after an eval_with the flag is set if and only if a min or max op
\* emitted Left or Right in that call, whatever the trail held before.
C13_SimplifyFlag ==
    (out.kind = "eval" /\ out.outcome = "returned") =>
        (out.r.simplify <=>
            \E i \in OutChoiceOps : OutEmits(i) \in {CHOICE_LEFT, CHOICE_RIGHT})

C13_Witness ==
    /\ out.kind = "eval" /\ out.outcome = "returned"
    /\ out.r.simplify
    /\ \E i \in OutChoiceOps : OutEmits(i) = CHOICE_BOTH
    /\ \E i \in OutChoiceOps : OutEmits(i) = CHOICE_RIGHT
    /\ \E i \in 1..Len(out.trail) : out.trail[i] = CHOICE_LEFT

----------------------------------------------------------------------------
(* Properties of subdivision and of repeated simplification (SpecTape) *)

\* What the last call returns, in a new evaluator, with one level of
\* subdivision less
Shallower ==
    eval_subdiv_recurse(tape, last.x, last.y, last.z, last.subdiv - 1, Fresh)

\* Interval containment: lower bound not smaller, upper bound not larger;
\* (NaN, NaN), the empty set, is contained in every interval
Contained(i, o) ==
    i = NaNInterval \/ (FGe(i.lower, o.lower) /\ FLe(i.upper, o.upper))

\* C14: the result of eval_i_subdiv at depth k + 1 is contained in the result
\* of eval_i_subdiv at depth k over the same box.
C14_SubdivTightens ==
    (last.fn = "eval_i_subdiv" /\ last.subdiv >= 1 /\ ret.kind = "interval") =>
        /\ ~IsPanic(ret.val)
        /\ ~IsPanic(Shallower.val)
        /\ Contained(ret.val, Shallower.val)

\* The trail the simplified tape ret.val leaves over the region of the last
\* call, in a new evaluator
Again ==
    eval_subdiv_recurse(ret.val, last.x, last.y, last.z, last.subdiv,
                        [i \in 1..choice_count(ret.val) |-> CHOICE_UNKNOWN])

\* C15: when the tape is simplified with the trail of an evaluation over a
\* region, simplifying the result with the trail the result leaves over the
\* same region gives the result again.
C15_SimplifyIdempotent ==
    (ret.kind = "tape" /\ last # NoCall) =>
        simplify_with_reg_limit(ret.val, Again.choices) = ret.val

C15_Witness ==
    /\ ret.kind = "tape"
    /\ last # NoCall
    /\ Len(ret.val) < Len(tape)
    /\ choice_count(ret.val) > 0
    /\ simplify_with_reg_limit(ret.val, Again.choices) = ret.val

----------------------------------------------------------------------------
(* Properties of reused storage and of the trail writes (SpecJit) *)

\* What the call of out returns from an evaluator built for the same tape
\* without any storage
FreshOut ==
    eval_with(get_jit(OutEval.tape), out.x, JitY, JitZ, out.vs, out.trail)

\* C16: a call of eval_with on an evaluator built into storage that take gave
\* returns the result, the trail and the simplify flag that the same call
\* returns on an evaluator built for the same tape without storage.
C16_StorageRoundTrip ==
    out.kind = "eval" =>
        /\ out.r.val = FreshOut.val
        /\ out.r.choices = FreshOut.choices
        /\ out.r.simplify = FreshOut.simplify

\* A call that returned on an evaluator whose mapping still holds code of the
\* donor behind its own
C16_Witness ==
    /\ out.kind = "eval"
    /\ out.outcome = "returned"
    /\ ~out.r.oob
    /\ Len(maps[OutEval.mmap].code) > Len(OutEval.tape) + 1
    /\ out.r.simplify
    /\ out.r = FreshOut

\* Where x1 points when the code of the handle's tape returns from the last
\* eval_with
OutX1 ==
    fn_interval(OutEval.tape, out.x, JitY, JitZ, out.vs,
                out.trail \o Behind(choice_count(OutEval.tape)
                                        - Len(out.trail))).x1

\* C17: an eval_with advances the trail pointer by the number of min and max
\* ops of the tape, the i-th min or max op writes entry i of the trail (the
\* entry it found there, or-ed with the choice it emitted), and the entries
\* behind the last of them are as they were before the call.
C17_OneEntryPerChoice ==
    (out.kind = "eval" /\ out.outcome = "returned") =>
        /\ OutX1 = choice_count(OutEval.tape) + 1
        /\ \A i \in OutChoiceOps :
            ChoiceIndex(OutEval.tape, i) <= Len(out.trail) =>
                out.r.choices[ChoiceIndex(OutEval.tape, i)]
                    = Orr(out.trail[ChoiceIndex(OutEval.tape, i)], OutEmits(i))
        /\ Len(out.r.choices) = Len(out.trail)
        /\ \A k \in (choice_count(OutEval.tape) + 1)..Len(out.trail) :
            out.r.choices[k] = out.trail[k]

\* A call on a tape with two choice ops that emitted different choices and
\* changed both entries, with a trail one entry longer than the tape needs
C17_Witness ==
    /\ out.kind = "eval" /\ out.outcome = "returned"
    /\ choice_count(OutEval.tape) = 2
    /\ Len(out.trail) = 3
    /\ \E i \in OutChoiceOps, j \in OutChoiceOps : OutEmits(i) # OutEmits(j)
    /\ out.r.choices[1] # out.trail[1]
    /\ out.r.choices[2] # out.trail[2]
    /\ out.r.choices[3] = out.trail[3]
    /\ out.trail[3] # CHOICE_UNKNOWN

----------------------------------------------------------------------------
(* Properties of the interval invariant (SpecOps, SpecTape) *)

\* The invariant of Interval: upper >= lower, or both bounds NaN
Invariant(i) == FGe(i.upper, i.lower) \/ (IsNaN(i.lower) /\ IsNaN(i.upper))

\* C18: add, sub, mul, neg, abs, sqrt, min_choice and max_choice of Interval,
\* applied to operands that satisfy the invariant, return an interval that
\* satisfies it: the assertion in Interval::new does not fail.
C18_InvariantKept ==
    (/\ res.impl = "core"
     /\ res.op \in C10Ops
     /\ Invariant(a)
     /\ res.op \in BinaryOps => Invariant(b)) =>
        /\ ~IsPanic(res.val)
        /\ Invariant(res.val)

\* The interval one leaf of the last call evaluates to
LeafVal(box) ==
    eval_with(get_jit(tape), box[1], box[2], box[3], <<>>, Fresh).val

\* C19: when a leaf of eval_i_subdiv evaluates to (NaN, NaN), eval_i_subdiv
\* returns (NaN, NaN).
C19_NaNLeafKept ==
    (/\ last.fn = "eval_i_subdiv"
     /\ ret.kind = "interval"
     /\ \E box \in LastLeaves : LeafVal(box) = NaNInterval) =>
        ret.val = NaNInterval

============================================================================
